---- MODULE Spec2Model ----
(***************************************************************************)
(* State-machine model of the WHIP relay control servers.                  *)
(*                                                                         *)
(* The repository holds two programs of package main:                      *)
(*   "relay"   src/unnamed/part_000 : /start performs the full WHIP        *)
(*             construction and signaling, /shutdown; no /stop.            *)
(*   "control" src/server.go        : /start only flips the running flag,  *)
(*             /stop, /shutdown.                                           *)
(* The variable binary records which of the two is the running process.    *)
(* Every HTTP request is served by its own goroutine (net/http); the       *)
(* listeners and the shutdown task are goroutines started with `go`.       *)
(***************************************************************************)
EXTENDS Integers, Sequences, FiniteSets, TLC

\* ------------------------------------------------------------------ bounds
\* number of control requests (/start, /shutdown) to the relay over one run
MaxReq == 2
\* number of control requests (/start, /stop, /shutdown) to the control
\* server over one run
MaxControlReq == 3
\* number of datagrams the media source sends over one run
MaxDatagrams == 2

\* --------------------------------------------------------------- constants
\* size of the listener's receive buffer
BufSize == 1500
\* fixed size of an RTP header without CSRCs (rtp.Packet.Unmarshal)
HeaderLength == 12

VARIABLES
  binary,     \* which program is the process: "relay" or "control"
  mu,         \* sync.Mutex: <<>> when free, else the goroutine holding it
  running,    \* the global running flag
  pc,         \* the global *webrtc.PeerConnection: 0 is nil, else a handle
  peers,      \* the PeerConnection objects ever created, by handle
  waiting,    \* per route, the requests received whose handler has not
              \* taken its first step
  reqs,       \* the handler goroutines that have, named <<route, k>> for
              \* the k-th of a route
  tasks,      \* the goroutines started by `go shutdown()`
  exited,     \* os.Exit has been called
  listeners,  \* the goroutines started by `go listenRTP(...)`
  posts,      \* the signaling requests sent to an ingest URL, in order
  sent,       \* number of datagrams the media source has sent so far
  active      \* history: Starts accepted and not ended by Stop or shutdown

vars == <<binary, waiting, mu, running, pc, peers, reqs, tasks, exited, listeners,
          posts, sent, active>>

\* ------------------------------------------------------------------ inputs
Binaries == {"relay", "control"}
\* UDP ports of the loopback address held by other processes of the host
OtherPorts == {5008}

\* Request bodies of /start: body 1 is not decodable JSON, the others decode
\* to a StartRequest.
StartBodies ==
  << [ok |-> FALSE, ingestUrl |-> "", videoPort |-> 0, audioPort |-> 0],
     [ok |-> TRUE, ingestUrl |-> "http://ingest/whip",
      videoPort |-> 5004, audioPort |-> 5006],
     [ok |-> TRUE, ingestUrl |-> "http://ingest/whip",
      videoPort |-> 5004, audioPort |-> 5008],
     [ok |-> TRUE, ingestUrl |-> "http://ingest/%zz",
      videoPort |-> 5004, audioPort |-> 5006] >>

\* url.Parse inside http.NewRequest rejects an invalid percent escape.
NewRequestFails(url) == url = "http://ingest/%zz"

\* Session description texts, as sequences of text pieces.
Offers == { <<"v=0", "o=offer">> }
\* The responses of the ingest endpoint to the signaling request.
Responses == { [status |-> 200, body |-> <<"v=0", "o=answer">>],
               [status |-> 201, body |-> <<"v=0", "o=answer2">>],
               [status |-> 500, body |-> <<"ingest", " rejected">>] }


\* --------------------------------------------------------------- datagrams
\* big-endian bytes of a 16-bit and of a 32-bit unsigned integer
U16(x) == << (x \div 256) % 256, x % 256 >>
U32(x) == << (x \div 16777216) % 256, (x \div 65536) % 256,
            (x \div 256) % 256, x % 256 >>

\* The wire form (RFC 3550) of an RTP packet of version 2 without CSRCs and
\* without extension; pad is the number of padding bytes (0: no padding).
RTPBytes(pt, seq, ts, ssrc, payload, pad) ==
  << 128 + (IF pad > 0 THEN 32 ELSE 0), pt >> \o U16(seq) \o U32(ts)
    \o U32(ssrc) \o payload
    \o [k \in 1..pad |-> IF k = pad THEN pad ELSE 0]

\* The fields of the packets the media source sends (values below 2^31).
Fields(seq, ts, ssrc, payload) ==
  [seq |-> seq, ts |-> ts, ssrc |-> ssrc, payload |-> payload]

SmallPacket == Fields(258, 16909060, 2018915346, <<7, 8, 9>>)
PaddedPacket == Fields(259, 16912060, 2018915346, <<5, 6>>)
\* a packet whose datagram is one byte longer than the receive buffer
LargePacket ==
  Fields(513, 50462976, 305419896,
         [k \in 1..(BufSize - HeaderLength + 1) |-> k % 256])

Wire(f, pt, pad) == RTPBytes(pt, f.seq, f.ts, f.ssrc, f.payload, pad)

\* The datagrams that arrive on a listener's socket: RTP packets of known
\* fields, a truncated RTP header, and random bytes.
Datagrams ==
  << [wire |-> Wire(SmallPacket, 111, 0), rtp |-> TRUE, is |-> SmallPacket],
     [wire |-> SubSeq(Wire(SmallPacket, 111, 0), 1, 8), rtp |-> FALSE,
      is |-> SmallPacket],
     [wire |-> <<23, 5, 200>>, rtp |-> FALSE, is |-> SmallPacket],
     [wire |-> Wire(PaddedPacket, 102, 3), rtp |-> TRUE, is |-> PaddedPacket],
     [wire |-> Wire(LargePacket, 102, 0), rtp |-> TRUE, is |-> LargePacket] >>

RECURSIVE Sum(_, _)
\* the sum of f over the set S
Sum(f, S) == IF S = {} THEN 0
             ELSE LET x == CHOOSE y \in S : TRUE IN f[x] + Sum(f, S \ {x})

Min(a, b) == IF a < b THEN a ELSE b

\* conn.ReadFrom(buf) of one datagram: n, and the bytes buf[:n]; what does
\* not fit in buf is discarded
ReadFromN(wire) == Min(Len(wire), BufSize)
ReadFromBuf(wire) == SubSeq(wire, 1, ReadFromN(wire))

\* a decoder that reads 16-bit fields in little-endian order
LE16(b, k) == b[k] + b[k + 1] * 256

\* binary.BigEndian.Uint16 and Uint32 of the bytes of b from position k
BE16(b, k) == b[k] * 256 + b[k + 1]
BE32(b, k) == b[k] * 16777216 + b[k + 1] * 65536 + b[k + 2] * 256 + b[k + 3]

\* rtp.Header.Unmarshal: the header length n, or -1 for an error
HeaderUnmarshal(b) ==
  IF Len(b) < HeaderLength THEN -1
  ELSE LET n0 == HeaderLength + 4 * (b[1] % 16)
           ext == (b[1] \div 16) % 2 = 1
       IN IF Len(b) < n0 THEN -1
          ELSE IF ~ext THEN n0
          ELSE IF Len(b) < n0 + 4 THEN -1
          ELSE LET n1 == n0 + 4 + 4 * BE16(b, n0 + 3)
               IN IF Len(b) < n1 THEN -1 ELSE n1

\* the end of the payload in b, given the header length n; -1 for an error
PayloadEnd(b, n) ==
  LET padding == (b[1] \div 32) % 2 = 1
      end == IF padding THEN Len(b) - b[Len(b)] ELSE Len(b)
  IN IF end < n THEN -1 ELSE end

\* pkt.Unmarshal(buf[:n]): err, and the packet when err is FALSE
Unmarshal(b) ==
  LET n == HeaderUnmarshal(b)
      end == IF n < 0 THEN -1 ELSE PayloadEnd(b, n)
  IN IF n < 0 \/ end < 0
       THEN [err |-> TRUE, pkt |-> Fields(0, 0, 0, <<>>)]
       ELSE [err |-> FALSE,
             pkt |-> Fields(BE16(b, 3), BE32(b, 5), BE32(b, 9),
                            SubSeq(b, n + 1, end))]

\* ----------------------------------------------------------------- helpers
\* mu when no goroutine holds it
Free == <<>>

\* the handler goroutines of one route
Handlers(op) == { h \in DOMAIN reqs : h[1] = op }

\* the value of the handler local resp before http.DefaultClient.Do returns
NoResp == [status |-> 0, body |-> <<>>, got |-> <<>>]

Range(s) == { s[k] : k \in DOMAIN s }

Prefixes(s) == { SubSeq(s, 1, n) : n \in 0..Len(s) }

Digit(d) == <<"0", "1", "2", "3", "4", "5", "6", "7", "8", "9">>[d + 1]

RECURSIVE Itoa(_)
\* the %d verb of fmt.Sprintf for a non-negative int
Itoa(n) == IF n < 10 THEN <<Digit(n)>> ELSE Itoa(n \div 10) \o <<Digit(n % 10)>>

\* a diagnostic that leaves the response body out
WhipErrorNoBody(status, b) == <<"whip error ">> \o Itoa(status)

\* fmt.Sprintf("whip error %d: %s", resp.StatusCode, string(b))
WhipError(status, b) == <<"whip error ">> \o Itoa(status) \o <<": ">> \o b

\* http.Error(w, msg, code): the status line and the message plus newline
HttpError(r, msg, code) ==
  [r EXCEPT !.status = code, !.text = msg \o <<"\n">>, !.at = "ret"]

\* w.Write(msg) on a response whose header was not written: status 200
WriteOK(r, msg) == [r EXCEPT !.status = 200, !.text = msg, !.at = "ret"]

\* the status test of startHandler on the ingest response
StatusAccepted(status) == status = 201 \/ status = 200

\* the goroutine state at `go listenRTP(port, track)`
NewListener(port, track) ==
  [port |-> port, track |-> track, at |-> "bind", conn |-> FALSE,
   n |-> 0, buf |-> <<>>, arrived |-> <<>>, handed |-> <<>>]

\* the goroutine serving a control request, in the body of its handler
NewHandler(op) ==
  [op |-> op, at |-> "body",
   resp |-> NoResp,
   decoded |-> 0, status |-> 0, text |-> <<>>, delivered |-> FALSE]

\* the routes registered by main
Routes(bin) == IF bin = "relay" THEN {"start", "shutdown"}
               ELSE {"start", "stop", "shutdown"}

\* the number of requests a run sends to the server bin
Limit(bin) == IF bin = "relay" THEN MaxReq ELSE MaxControlReq

\* the paths of the control requests a run sends
Paths == {"start", "stop", "shutdown"}

Init ==
  /\ binary \in Binaries
  /\ waiting = [op \in Paths |-> 0]
  /\ mu = Free
  /\ running = FALSE
  /\ pc = 0
  /\ peers = <<>>
  /\ reqs = << >>
  /\ tasks = <<>>
  /\ exited = FALSE
  /\ listeners = <<>>
  /\ posts = <<>>
  /\ sent = 0
  /\ active = 0

\* UDP ports of 127.0.0.1 that are bound
BoundPorts == OtherPorts \cup { listeners[l].port : l \in { k \in DOMAIN listeners : listeners[k].conn } }

\* ------------------------------------------------------- control requests
\* the requests the server has received
Received == Cardinality(DOMAIN reqs) + Sum(waiting, DOMAIN waiting)

\* the name of the next handler of route op to take its first step
NextHandler(op) == <<op, Cardinality(Handlers(op)) + 1>>

\* net/http accepts a request and runs its handler in a new goroutine
Request(op) ==
  /\ ~exited
  /\ Received < Limit(binary)
  /\ op \in Paths
  /\ waiting' = [waiting EXCEPT ![op] = @ + 1]
  /\ UNCHANGED <<binary, mu, running, pc, peers, reqs, tasks, exited,
                 listeners, posts, sent, active>>

\* mu.Lock() at the top of startHandler and stopHandler returns in one of
\* the goroutines blocked in it
Lock(op) ==
  /\ ~exited
  /\ op \in Routes(binary) \ {"shutdown"}
  /\ waiting[op] > 0
  /\ mu = Free
  /\ mu' = NextHandler(op)
  /\ waiting' = [waiting EXCEPT ![op] = @ - 1]
  /\ reqs' = reqs @@ (NextHandler(op) :> NewHandler(op))
  /\ UNCHANGED <<binary, running, pc, peers, tasks, exited, listeners,
                 posts, sent, active>>

\* http.DefaultServeMux finds no handler registered for the path of a
\* request: it answers with http.NotFound
NotFound(op) ==
  /\ ~exited
  /\ op \in Paths \ Routes(binary)
  /\ waiting[op] > 0
  /\ waiting' = [waiting EXCEPT ![op] = @ - 1]
  /\ reqs' = reqs @@ (NextHandler(op) :>
                HttpError(NewHandler(op), <<"404 page not found">>, 404))
  /\ UNCHANGED <<binary, mu, running, pc, peers, tasks, exited, listeners,
                 posts, sent, active>>

\* a startHandler that does not test the flag
NeverAlreadyRunning == FALSE

\* the test `if running` of startHandler
AlreadyRunning == running

\* a stopHandler that does not test the flag
NeverNotRunning == FALSE

\* the test `if !running` of stopHandler
NotRunning == ~running

\* a decoder that accepts any request body
DecodeNeverFails(b) == FALSE

\* json.NewDecoder(r.Body).Decode(&req) returns an error
DecodeFailed(b) == ~b.ok

\* the handler record r once the request body has been read: decoded is the
\* body read, 0 before
Decoded(r, body) == [r EXCEPT !.decoded = body]

\* startHandler of server.go, from the running test to the response
StartControl(i, body) ==
  LET r == reqs[i]
      rd == Decoded(r, body)
  IN
  /\ ~exited
  /\ binary = "control"
  /\ r.op = "start" /\ r.at = "body"
  /\ body \in DOMAIN StartBodies
  /\ IF AlreadyRunning
       THEN /\ reqs' = [reqs EXCEPT ![i] = HttpError(r, <<"already running">>, 409)]
            /\ UNCHANGED <<running, active>>
       ELSE IF DecodeFailed(StartBodies[body])
       THEN /\ reqs' = [reqs EXCEPT ![i] = HttpError(rd, <<"bad request">>, 400)]
            /\ UNCHANGED <<running, active>>
       ELSE /\ running' = TRUE
            /\ active' = active + 1
            /\ reqs' = [reqs EXCEPT ![i] = WriteOK(rd, <<"asdsa">>)]
  /\ UNCHANGED <<binary, waiting, mu, pc, peers, tasks, exited, listeners, posts, sent>>

\* a stopHandler that leaves the flag as it is
StopKeepsFlag == running

\* the assignment `running = false` of stopHandler
StopFlag == FALSE

\* stopHandler of server.go, from the running test to the response
StopControl(i) ==
  LET r == reqs[i] IN
  /\ ~exited
  /\ binary = "control"
  /\ r.op = "stop" /\ r.at = "body"
  /\ IF NotRunning
       THEN /\ reqs' = [reqs EXCEPT ![i] = HttpError(r, <<"not running">>, 409)]
            /\ UNCHANGED <<running, active>>
       ELSE /\ running' = StopFlag
            /\ active' = active - 1
            /\ reqs' = [reqs EXCEPT ![i] = WriteOK(r, <<"Relay stopped">>)]
  /\ UNCHANGED <<binary, waiting, mu, pc, peers, tasks, exited, listeners, posts, sent>>

\* ------------------------------------------------- startHandler of the relay
\* The library calls of startHandler before the signaling request that can
\* return an error, in the order of the code; "none": none of them fails.
BeginFailures == <<"audio codec", "video codec", "pc", "audio track",
                   "video track", "create offer", "local desc", "none">>

\* position of a failure in the order of the code
FailAt(fail) == CHOOSE k \in DOMAIN BeginFailures : BeginFailures[k] = fail

\* the message of the http.Error that follows a failed call
FailText(fail) ==
  CASE fail = "audio codec" -> <<"failed to register audio codec">>
    [] fail = "video codec" -> <<"failed to register video codec">>
    [] fail = "pc" -> <<"failed to create pc">>
    [] fail = "audio track" -> <<"failed audio track">>
    [] fail = "video track" -> <<"failed video track">>
    [] fail = "create offer" -> <<"failed to create offer">>
    [] fail = "local desc" -> <<"failed to set local desc">>
    [] OTHER -> <<"failed to build whip request">>

\* the tracks added to the new PeerConnection by pc.AddTrack
AddedTracks(fail) ==
  IF fail = "audio track" THEN {}
  ELSE IF fail = "video track" THEN {"audio"}
  ELSE {"audio", "video"}

\* a startHandler that starts no listener
LaunchedNone(b, p, fail) == <<>>

\* the two `go listenRTP(...)` statements, reached when both tracks exist
Launched(b, p, fail) ==
  IF FailAt(fail) > FailAt("video track")
    THEN << NewListener(b.audioPort, <<p, "audio">>),
            NewListener(b.videoPort, <<p, "video">>) >>
    ELSE <<>>

\* a signaling request sent with an empty body
PostEmpty(offer) == <<>>

\* the body of the signaling request: strings.NewReader(offer.SDP)
PostBody(offer) == offer

\* the signaling request built by http.NewRequest and the header set on it
WhipRequest(i, url, offer) ==
  [from |-> i, method |-> "POST", url |-> url, ctype |-> "application/sdp",
   body |-> PostBody(offer)]

\* startHandler of part_000 from the running test to the sending of the
\* signaling request by http.DefaultClient.Do: the request body decodes to
\* StartBodies[body], the call named by fail returns an error, and
\* pc.CreateOffer returns offer
StartBegin(i, body, fail, offer) ==
  LET r == reqs[i]
      rd == Decoded(r, body)
      b == StartBodies[body]
      p == Len(peers) + 1
      posted == fail = "none" /\ ~NewRequestFails(b.ingestUrl)
  IN
  /\ ~exited
  /\ binary = "relay"
  /\ r.op = "start" /\ r.at = "body"
  /\ body \in DOMAIN StartBodies
  /\ fail \in Range(BeginFailures)
  /\ offer \in Offers
  /\ IF AlreadyRunning
       THEN /\ reqs' = [reqs EXCEPT ![i] = HttpError(r, <<"already running">>, 409)]
            /\ UNCHANGED <<pc, peers, listeners, posts>>
       ELSE IF DecodeFailed(b)
       THEN /\ reqs' = [reqs EXCEPT ![i] = HttpError(rd, <<"bad request">>, 400)]
            /\ UNCHANGED <<pc, peers, listeners, posts>>
       ELSE IF FailAt(fail) < FailAt("pc")
       THEN /\ reqs' = [reqs EXCEPT ![i] = HttpError(rd, FailText(fail), 500)]
            /\ UNCHANGED <<pc, peers, listeners, posts>>
       ELSE IF fail = "pc"
       THEN \* pc, err = api.NewPeerConnection(...) stores the nil result
            /\ pc' = 0
            /\ reqs' = [reqs EXCEPT ![i] = HttpError(rd, FailText(fail), 500)]
            /\ UNCHANGED <<peers, listeners, posts>>
       ELSE /\ pc' = p
            /\ peers' = Append(peers,
                 [local |-> IF FailAt(fail) > FailAt("local desc")
                              THEN offer ELSE <<>>,
                  remote |-> <<>>, tracks |-> AddedTracks(fail)])
            /\ listeners' = listeners \o Launched(b, p, fail)
            /\ IF posted
                 THEN /\ posts' = Append(posts, WhipRequest(i, b.ingestUrl, offer))
                      /\ reqs' = [reqs EXCEPT ![i] = [rd EXCEPT !.at = "await"]]
                 ELSE /\ reqs' = [reqs EXCEPT ![i] =
                                    HttpError(rd, FailText(fail), 500)]
                      /\ UNCHANGED posts
  /\ UNCHANGED <<binary, waiting, mu, running, tasks, exited, sent, active>>

\* a startHandler that ignores the error of io.ReadAll
ReadNeverFailed(resp) == FALSE

\* io.ReadAll(resp.Body) of the answer: the bytes read, and an error unless
\* the whole body was read
ReadFailed(resp) == resp.got # resp.body

\* string(answerSDP), the SDP of the answer given to SetRemoteDescription
AnswerSDP(resp) == resp.got

\* startHandler of part_000: http.DefaultClient.Do returns a transport error
StartPostError(i) ==
  LET r == reqs[i] IN
  /\ ~exited
  /\ r.op = "start" /\ r.at = "await"
  /\ reqs' = [reqs EXCEPT ![i] = HttpError(r, <<"whip request failed">>, 500)]
  /\ UNCHANGED <<binary, waiting, mu, running, pc, peers, tasks, exited, listeners,
                 posts, sent, active>>

\* startHandler of part_000 from the return of http.DefaultClient.Do with a
\* response (status, body) of which ReadAll reads got, to the response
StartAnswer(i, status, body, got, fail) ==
  LET r == reqs[i]
      resp == [status |-> status, body |-> body, got |-> got]
      rr == [r EXCEPT !.resp = resp]
  IN
  /\ ~exited
  /\ r.op = "start" /\ r.at = "await"
  /\ [status |-> status, body |-> body] \in Responses
  /\ got \in Prefixes(body)
  /\ fail \in BOOLEAN
  /\ IF ~StatusAccepted(status)
       THEN /\ reqs' = [reqs EXCEPT ![i] =
                          HttpError(rr, WhipError(status, got), 500)]
            /\ UNCHANGED <<running, peers, active>>
       ELSE IF ReadFailed(resp)
       THEN /\ reqs' = [reqs EXCEPT ![i] =
                          HttpError(rr, <<"failed to read whip answer">>, 500)]
            /\ UNCHANGED <<running, peers, active>>
       ELSE IF fail
       THEN /\ reqs' = [reqs EXCEPT ![i] =
                          HttpError(rr, <<"failed to set remote desc">>, 500)]
            /\ UNCHANGED <<running, peers, active>>
       ELSE /\ peers' = [peers EXCEPT ![pc].remote = AnswerSDP(resp)]
            /\ running' = TRUE
            /\ active' = active + 1
            /\ reqs' = [reqs EXCEPT ![i] = WriteOK(rr, <<"Relay started">>)]
  /\ UNCHANGED <<binary, waiting, mu, pc, tasks, exited, listeners, posts,
                 sent>>

\* a handler that returns with the mutex still locked
NoUnlock(i) == mu

\* the deferred mu.Unlock() of startHandler and stopHandler; the handlers of
\* the other requests never lock mu
Unlock(i) == IF mu = i THEN Free ELSE mu

\* the handler returns: the deferred mu.Unlock() of startHandler and
\* stopHandler runs, net/http flushes the buffered response to the client,
\* and the goroutine ends with its locals
Return(i) ==
  LET r == reqs[i] IN
  /\ ~exited
  /\ r.at = "ret"
  /\ mu' = Unlock(i)
  /\ reqs' = [reqs EXCEPT ![i] = [NewHandler(r.op) EXCEPT
                                    !.at = "done", !.delivered = TRUE]]
  /\ UNCHANGED <<binary, waiting, running, pc, peers, tasks, exited, listeners,
                 posts, sent, active>>

\* shutdownHandler: buffer the acknowledgement, then `go shutdown()`
ShutdownHandler ==
  /\ ~exited
  /\ waiting["shutdown"] > 0
  /\ waiting' = [waiting EXCEPT !["shutdown"] = @ - 1]
  /\ reqs' = reqs @@ (NextHandler("shutdown") :>
                WriteOK(NewHandler("shutdown"), <<"Relay server shutting down">>))
  /\ tasks' = Append(tasks, "lock")
  /\ UNCHANGED <<binary, mu, running, pc, peers, exited, listeners, posts, sent, active>>

\* the goroutine of the j-th `go shutdown()`, as a holder of mu
Task(j) == <<"task", j>>

\* shutdown: mu.Lock()
ShutdownLock(j) ==
  /\ ~exited
  /\ tasks[j] = "lock"
  /\ mu = Free
  /\ mu' = Task(j)
  /\ tasks' = [tasks EXCEPT ![j] = "mark"]
  /\ UNCHANGED <<binary, waiting, running, pc, peers, reqs, exited, listeners,
                 posts, sent, active>>

\* shutdown: running = false; mu.Unlock()
ShutdownMark(j) ==
  /\ ~exited
  /\ tasks[j] = "mark"
  /\ running' = FALSE
  /\ active' = 0
  /\ mu' = Free
  /\ tasks' = [tasks EXCEPT ![j] = "exit"]
  /\ UNCHANGED <<binary, waiting, pc, peers, reqs, exited, listeners, posts,
                 sent>>

\* shutdown: os.Exit(0)
ShutdownExit(j) ==
  /\ ~exited
  /\ tasks[j] = "exit"
  /\ exited' = TRUE
  /\ tasks' = [tasks EXCEPT ![j] = "done"]
  /\ UNCHANGED <<binary, waiting, mu, running, pc, peers, reqs, listeners, posts, sent, active>>

\* ---------------------------------------------------------------- listenRTP
\* listenRTP: net.ListenUDP on 127.0.0.1:port; on an error log and return
\* (the goroutine ends at "failed")
ListenBind(l) ==
  LET t == listeners[l] IN
  /\ ~exited
  /\ t.at = "bind"
  /\ listeners' = IF t.port \in BoundPorts
                    THEN [listeners EXCEPT ![l].at = "failed"]
                    ELSE [listeners EXCEPT ![l].conn = TRUE, ![l].at = "read"]
  /\ UNCHANGED <<binary, waiting, mu, running, pc, peers, reqs, tasks, exited, posts, sent, active>>

\* listenRTP: conn.ReadFrom(buf) returns datagram d sent by the media source
ListenRead(l, d) ==
  LET t == listeners[l] IN
  /\ ~exited
  /\ t.at = "read"
  /\ sent < MaxDatagrams
  /\ d \in DOMAIN Datagrams
  /\ sent' = sent + 1
  /\ listeners' = [listeners EXCEPT ![l].n = ReadFromN(Datagrams[d].wire),
                                    ![l].buf = ReadFromBuf(Datagrams[d].wire),
                                    ![l].arrived = Append(@, d),
                                    ![l].at = "forward"]
  /\ UNCHANGED <<binary, waiting, mu, running, pc, peers, reqs, tasks, exited, posts, active>>

\* a failure of one listener that ends every listener
TerminateAll(ls, l) ==
  [k \in DOMAIN ls |-> [ls[k] EXCEPT !.conn = FALSE, !.at = "done"]]

\* listenRTP returns after a failed read or write: the goroutine of listener
\* l ends and its deferred conn.Close() runs
Terminate(ls, l) == [ls EXCEPT ![l].conn = FALSE, ![l].at = "done"]

\* listenRTP: conn.ReadFrom returns an error; return, the deferred
\* conn.Close() runs
ListenReadError(l) ==
  LET t == listeners[l] IN
  /\ ~exited
  /\ t.at = "read"
  /\ listeners' = Terminate(listeners, l)
  /\ UNCHANGED <<binary, waiting, mu, running, pc, peers, reqs, tasks, exited, posts, sent, active>>

\* a listener that returns on an Unmarshal error
ReturnOnDecodeError(t) == [t EXCEPT !.conn = FALSE, !.at = "done"]

\* listenRTP on an Unmarshal error: log and continue
OnDecodeError(t) == [t EXCEPT !.at = "read"]

\* listenRTP: pkt.Unmarshal(buf[:n]); on an error continue, else
\* track.WriteRTP(&pkt), which returns an error when werr
ListenForward(l, werr) ==
  LET t == listeners[l]
      u == Unmarshal(SubSeq(t.buf, 1, t.n))
  IN
  /\ ~exited
  /\ t.at = "forward"
  /\ werr \in BOOLEAN
  /\ listeners' =
       IF u.err THEN [listeners EXCEPT ![l] = OnDecodeError(t)]
       ELSE IF werr
       THEN Terminate([listeners EXCEPT ![l].handed = Append(@, u.pkt)], l)
       ELSE [listeners EXCEPT ![l].handed = Append(@, u.pkt),
                              ![l].at = "read"]
  /\ UNCHANGED <<binary, waiting, mu, running, pc, peers, reqs, tasks, exited, posts, sent, active>>

\* -------------------------------------------------------------------- Next
\* the steps of the handlers and of the shutdown task
Control ==
  \/ \E op \in {"start", "stop"} : Lock(op)
  \/ \E op \in Paths : NotFound(op)
  \/ \E i \in DOMAIN reqs, body \in DOMAIN StartBodies : StartControl(i, body)
  \/ \E i \in DOMAIN reqs : StopControl(i)
  \/ \E i \in DOMAIN reqs, body \in DOMAIN StartBodies :
       \E fail \in Range(BeginFailures), offer \in Offers :
         StartBegin(i, body, fail, offer)
  \/ \E i \in DOMAIN reqs : StartPostError(i)
  \/ \E i \in DOMAIN reqs, resp \in Responses :
       \E got \in Prefixes(resp.body), fail \in BOOLEAN :
         StartAnswer(i, resp.status, resp.body, got, fail)
  \/ \E i \in DOMAIN reqs : Return(i)
  \/ ShutdownHandler
  \/ \E j \in DOMAIN tasks : ShutdownLock(j)
  \/ \E j \in DOMAIN tasks : ShutdownMark(j)
  \/ \E j \in DOMAIN tasks : ShutdownExit(j)
  \/ \E l \in DOMAIN listeners : ListenBind(l)

\* The control plane: the control requests of one run in any interleaving, the
\* sockets of the listeners, no media traffic.
Next ==
  \/ \E op \in {"start", "stop", "shutdown"} : Request(op)
  \/ Control

Spec == Init /\ [][Next]_vars

\* The media path of one session: one control request, and up to
\* MaxDatagrams datagrams from the media source to the listeners.
NextMedia ==
  \/ \E op \in {"start", "stop", "shutdown"} : Received = 0 /\ Request(op)
  \/ Control
  \/ \E l \in DOMAIN listeners : ListenReadError(l)
  \/ \E l \in DOMAIN listeners, d \in DOMAIN Datagrams : ListenRead(l, d)
  \/ \E l \in DOMAIN listeners, werr \in BOOLEAN : ListenForward(l, werr)

SpecMedia == Init /\ [][NextMedia]_vars

\* ------------------------------------------------------------------ claims
\* the handler h is a startHandler (stopHandler) that holds mu and is about
\* to test the running flag
AtStartTest(h) == h[1] = "start" /\ reqs[h].at = "body"
AtStopTest(h) == h[1] = "stop" /\ reqs[h].at = "body"

\* the handler h has written its response and has not yet returned
Responded(h, status) == reqs[h].at = "ret" /\ reqs[h].status = status

\* what a session consists of, besides the handlers' own progress
SessionState == <<running, pc, peers, listeners, posts, active>>

\* C1: at most one session is Running at any instant: the number of Start
\* calls accepted and not yet ended by a successful Stop or by the shutdown
\* task never exceeds one, and the running flag is set exactly when it is one.
C1_AtMostOneRunning == active <= 1 /\ (running <=> active = 1)

\* a session is running while a second Start holds the lock, about to test
C1_Witness ==
  /\ running /\ active = 1
  /\ \E h \in DOMAIN reqs : AtStartTest(h)

\* C2: a Start that tests the flag while the state is Running answers 409
\* "already running" and changes nothing of the session: the flag, the peer
\* handle, the peers and their tracks, the listeners, the signaling requests.
C2_StartWhileRunning ==
  [][\A h \in DOMAIN reqs :
       (AtStartTest(h) /\ running /\ reqs'[h].at # "body")
         => /\ reqs'[h].at = "ret"
            /\ reqs'[h].status = 409
            /\ reqs'[h].text = <<"already running", "\n">>
            /\ UNCHANGED SessionState]_vars

\* a Start of the relay was refused while a session with a peer was running
C2_Witness ==
  /\ binary = "relay" /\ running /\ pc # 0 /\ listeners # <<>>
  /\ \E h \in DOMAIN reqs : h[1] = "start" /\ Responded(h, 409)

\* C3: a Stop that tests the flag while the state is not Running answers 409
\* "not running" and changes nothing of the session.
C3_StopWhileNotRunning ==
  [][\A h \in DOMAIN reqs :
       (AtStopTest(h) /\ ~running /\ reqs'[h].at # "body")
         => /\ reqs'[h].at = "ret"
            /\ reqs'[h].status = 409
            /\ reqs'[h].text = <<"not running", "\n">>
            /\ UNCHANGED SessionState]_vars

\* a Stop was refused in the idle state
C3_Witness ==
  /\ ~running
  /\ \E h \in DOMAIN reqs : h[1] = "stop" /\ Responded(h, 409)

\* everything startHandler of the relay must have achieved when it reports
\* success: both tracks on the current peer, the local description applied,
\* the offer posted by this handler, an answer of status 200 or 201 read to
\* its end and applied as the remote description
AllStepsDone(h) ==
  /\ pc \in DOMAIN peers
  /\ peers[pc].tracks = {"audio", "video"}
  /\ peers[pc].local # <<>>
  /\ \E k \in DOMAIN posts : posts[k].from = h
  /\ reqs[h].resp.status \in {200, 201}
  /\ reqs[h].resp.got = reqs[h].resp.body
  /\ peers[pc].remote # <<>>

\* C4: when a construction or negotiation step of Start fails, the call
\* reports the failure (status 500) and the state is Idle when it returns;
\* the state is Running after a Start of the relay only if every step
\* succeeded.
C4_FailedStartIsIdle ==
  \A h \in DOMAIN reqs :
    (h[1] = "start" /\ reqs[h].at = "ret") =>
      /\ reqs[h].status = 500 => (~running /\ active = 0)
      /\ (binary = "relay" /\ reqs[h].status # 409 /\ running)
           => (reqs[h].status = 200 /\ AllStepsDone(h))
      /\ (binary = "relay" /\ reqs[h].status = 200) => running

\* a Start whose last step, applying the remote description, failed
C4_Witness ==
  /\ ~running
  /\ \E h \in DOMAIN reqs :
       /\ h[1] = "start" /\ Responded(h, 500)
       /\ reqs[h].text = <<"failed to set remote desc", "\n">>
       /\ reqs[h].resp.status \in {200, 201}

\* the signaling request of handler h was sent
Posted(h) == \E k \in DOMAIN posts : posts[k].from = h

\* the listeners started by the Start that created peer p
ListenersOf(ls, p) == { l \in DOMAIN ls : ls[l].track[1] = p }

\* C5: a Start whose signaling exchange fails releases every resource it
\* constructed: once it has returned, none of its listeners is running or
\* holds a socket, and the peer it created is no longer held in pc.
C5_ReleasesResources ==
  [][\A h \in DOMAIN reqs :
       (h[1] = "start" /\ Responded(h, 500) /\ Posted(h)
          /\ reqs'[h].at = "done")
         => /\ pc' # pc
            /\ \A l \in ListenersOf(listeners', pc) :
                 ~listeners'[l].conn /\ listeners'[l].at \in {"failed", "done"}]_vars

\* C6: a Start never reports success when a listener of its session could not
\* bind its UDP port.
C6_BindFailureAbortsStart ==
  \A h \in DOMAIN reqs :
    (binary = "relay" /\ h[1] = "start" /\ Responded(h, 200)) =>
      \A l \in ListenersOf(listeners, pc) : listeners[l].at # "failed"

\* t is a contiguous part of s
Contains(s, t) ==
  \E k \in 0..(Len(s) - Len(t)) : SubSeq(s, k + 1, k + Len(t)) = t

\* the decimal digits of a status code of three digits
Decimal3(n) == << Digit(n \div 100), Digit((n \div 10) % 10), Digit(n % 10) >>

\* C7: Start reports success only if the ingest endpoint answered 200 or 201;
\* for any other status it answers 500 with a diagnostic that contains the
\* status code received and the response body received (as far as it was
\* read), and the remote description is not applied.
C7_OnlyAcceptedStatus ==
  \A h \in DOMAIN reqs :
    (binary = "relay" /\ h[1] = "start" /\ reqs[h].at = "ret") =>
      LET resp == reqs[h].resp IN
      /\ reqs[h].status = 200 => resp.status \in {200, 201}
      /\ (resp.status # 0 /\ resp.status \notin {200, 201}) =>
           /\ reqs[h].status = 500
           /\ Contains(reqs[h].text, Decimal3(resp.status))
           /\ Contains(reqs[h].text, resp.got)
           /\ peers[pc].remote = <<>>

\* the ingest endpoint answered 500 "ingest rejected" and the whole body
\* was read
C7_Witness ==
  \E h \in DOMAIN reqs :
    /\ h[1] = "start" /\ Responded(h, 500)
    /\ reqs[h].resp = [status |-> 500, body |-> <<"ingest", " rejected">>,
                        got |-> <<"ingest", " rejected">>]

\* C8: whenever Start succeeds, the remote description applied to the peer is
\* exactly the body of the 200/201 response, and the one signaling request of
\* the call carried exactly the offer applied as the local description.
C8_DescriptionsExact ==
  \A h \in DOMAIN reqs :
    (binary = "relay" /\ h[1] = "start" /\ Responded(h, 200)) =>
      /\ peers[pc].remote = reqs[h].resp.body
      /\ peers[pc].local \in Offers
      /\ Cardinality({k \in DOMAIN posts : posts[k].from = h}) = 1
      /\ \A k \in DOMAIN posts :
           posts[k].from = h =>
             /\ posts[k].body = peers[pc].local
             /\ posts[k].method = "POST"
             /\ posts[k].ctype = "application/sdp"

\* a Start succeeded on a 201 answer
C8_Witness ==
  \E h \in DOMAIN reqs :
    /\ h[1] = "start" /\ Responded(h, 200)
    /\ reqs[h].resp.status = 201
    /\ peers[pc].remote = <<"v=0", "o=answer2">>

\* the datagrams listener t has read and finished with (the last one read
\* is still to be decoded while t is at "forward")
Processed(t) ==
  IF t.at = "forward" THEN SubSeq(t.arrived, 1, Len(t.arrived) - 1)
  ELSE t.arrived

IsRTP(d) == Datagrams[d].rtp

\* the well-formed datagrams among them, in the order of arrival
WellFormed(t) == SelectSeq(Processed(t), IsRTP)

\* C9: a datagram that fails RTP decoding is dropped: the listener neither
\* ends nor hands anything to its track, and goes on reading; every
\* well-formed datagram it reads after a malformed one is handed to the track.
C9_MalformedDropped ==
  /\ [][\A l \in DOMAIN listeners :
          LET t == listeners[l] IN
          (t.at = "forward" /\ ~IsRTP(t.arrived[Len(t.arrived)])
             /\ listeners'[l] # t)
            => /\ listeners'[l].at = "read"
               /\ listeners'[l].conn
               /\ listeners'[l].handed = t.handed]_vars
  /\ [](\A l \in DOMAIN listeners :
          LET t == listeners[l]
              done == Processed(t)
          IN \A j, k \in DOMAIN done :
               (j < k /\ ~IsRTP(done[j]) /\ IsRTP(done[k]))
                 => \E m \in DOMAIN t.handed :
                      t.handed[m].seq = Datagrams[done[k]].is.seq)

\* random bytes, then a well-formed packet that was handed to the track
C9_Witness ==
  \E l \in DOMAIN listeners :
    /\ listeners[l].arrived = <<3, 1>>
    /\ listeners[l].at = "read" /\ listeners[l].conn
    /\ listeners[l].handed = <<SmallPacket>>

Trigger(j) == <<"shutdown", j>>

\* C11: the process never exits before the acknowledgement of the Shutdown
\* request that triggered the exit has been delivered to its caller: the
\* handler of the task that called os.Exit has returned, so that net/http has
\* flushed the response it buffered.
C11_AckBeforeExit ==
  \A j \in DOMAIN tasks : tasks[j] = "done" => reqs[Trigger(j)].delivered

\* The steps the Go scheduler owes to the goroutines of the process: a
\* runnable goroutine is eventually run, and a goroutine blocked in
\* mu.Lock() eventually gets a mutex that keeps being released (sync.Mutex
\* hands the lock to a waiter that has starved). Not among them: the arrival
\* of requests, and the outcome of http.DefaultClient.Do, which has no
\* timeout and returns only when the ingest endpoint or the network acts.
Fairness ==
  /\ \A op \in {"start", "stop"} : SF_vars(Lock(op))
  /\ SF_vars(\E j \in DOMAIN tasks : ShutdownLock(j))
  /\ WF_vars(\E j \in DOMAIN tasks : ShutdownMark(j))
  /\ WF_vars(\E i \in DOMAIN reqs, body \in DOMAIN StartBodies :
               StartControl(i, body))
  /\ WF_vars(\E i \in DOMAIN reqs : StopControl(i))
  /\ WF_vars(\E i \in DOMAIN reqs, body \in DOMAIN StartBodies :
               \E fail \in Range(BeginFailures), offer \in Offers :
                 StartBegin(i, body, fail, offer))
  /\ WF_vars(\E i \in DOMAIN reqs : Return(i))
  /\ WF_vars(ShutdownHandler)
  /\ WF_vars(\E op \in Paths : NotFound(op))
  /\ WF_vars(\E j \in DOMAIN tasks : ShutdownExit(j))
  /\ WF_vars(\E l \in DOMAIN listeners : ListenBind(l))

\* the control plane under fair scheduling of the goroutines
SpecFair == Spec /\ Fairness

\* a Shutdown request has been received
ShutdownIssued == waiting["shutdown"] > 0 \/ Handlers("shutdown") # {}

\* C12: under fair scheduling of the goroutines, a Shutdown request received
\* in any state, a Start waiting for the signaling response included, is
\* eventually followed by the termination of the process.
C12_ShutdownTerminates == ShutdownIssued ~> exited

\* the handler h writes its response in this step
Responds(h) ==
  /\ h \in DOMAIN reqs' /\ reqs'[h].at = "ret"
  /\ h \notin DOMAIN reqs \/ reqs[h].at \in {"body", "await"}

\* no transport and no socket of a session is held
HandlesReleased ==
  /\ pc = 0
  /\ \A l \in DOMAIN listeners : ~listeners[l].conn

\* C13 as claimed: a Stop answered while the state is Running succeeds: it
\* answers 200, the state is Idle and the transport and the listeners'
\* sockets of the session are released.
C13_StopReleases ==
  [][\A h \in DOMAIN reqs' :
       (h[1] = "stop" /\ Responds(h) /\ running)
         => /\ reqs'[h].status = 200
            /\ ~running'
            /\ HandlesReleased']_vars

\* C13 as amended: on the control server a Stop answered while Running
\* answers 200 "Relay stopped" and clears the flag, and touches nothing else
\* (its sessions hold no transport, track or listener); on the relay, which
\* registers no /stop, the request is answered 404 and the session is left as
\* it is. In the Idle state a Start is never refused with 409.
C13_StopOnControlServer ==
  [][/\ \A h \in DOMAIN reqs' :
          (h[1] = "stop" /\ Responds(h) /\ running)
            => IF binary = "control"
                 THEN /\ reqs'[h].status = 200
                      /\ reqs'[h].text = <<"Relay stopped">>
                      /\ ~running' /\ active' = 0
                      /\ UNCHANGED <<pc, peers, listeners, posts>>
                 ELSE /\ reqs'[h].status = 404
                      /\ UNCHANGED SessionState
     /\ \A h \in DOMAIN reqs :
          (AtStartTest(h) /\ ~running /\ Responds(h))
            => reqs'[h].status # 409]_vars

\* a Stop of a running session has succeeded, and a Start is waiting for the
\* lock the Stop still holds
C13_Witness ==
  /\ binary = "control" /\ ~running /\ active = 0
  /\ \E h \in DOMAIN reqs : h[1] = "stop" /\ Responded(h, 200) /\ mu = h
  /\ waiting["start"] > 0

\* C14: a Start that finds the state Idle and cannot decode its request body
\* answers 400 "bad request" and changes nothing of the session: the state
\* stays Idle, no transport, track or listener is constructed and no
\* signaling request is sent.
C14_UndecodableBody ==
  [][\A h \in DOMAIN reqs :
       (/\ AtStartTest(h) /\ ~running
        /\ reqs'[h].decoded # 0
        /\ ~StartBodies[reqs'[h].decoded].ok)
         => /\ reqs'[h].at = "ret"
            /\ reqs'[h].status = 400
            /\ reqs'[h].text = <<"bad request", "\n">>
            /\ ~running'
            /\ UNCHANGED SessionState]_vars

\* the relay has answered 400 to a body it could not decode, after an
\* earlier Start had failed and left the state Idle
C14_Witness ==
  /\ binary = "relay" /\ ~running /\ peers # <<>>
  /\ \E h \in DOMAIN reqs :
       /\ h[1] = "start" /\ Responded(h, 400)
       /\ reqs[h].decoded = 1

\* the signaling requests sent by handler h
PostsOf(h) == { k \in DOMAIN posts : posts[k].from = h }

\* the media kinds for which peer p has a listener goroutine
KindsListening(ls, p) == { ls[l].track[2] : l \in ListenersOf(ls, p) }

\* C15: a Start sends at most one signaling request, and sends it only when
\* both listeners of its session have been launched and the offer, the body
\* of the request, is the local description of its peer; the state becomes
\* Running only with the answer to that request applied as the remote
\* description; and while the state is Running no signaling request is sent.
C15_OneExchange ==
  /\ [](\A h \in DOMAIN reqs : Cardinality(PostsOf(h)) <= 1)
  /\ [][/\ posts' # posts =>
            /\ Len(posts') = Len(posts) + 1
            /\ SubSeq(posts', 1, Len(posts)) = posts
            /\ ~running /\ ~running'
            /\ pc' \in DOMAIN peers' /\ pc' \notin DOMAIN peers
            /\ peers'[pc'].local # <<>>
            /\ posts'[Len(posts')].body = peers'[pc'].local
            /\ posts'[Len(posts')].method = "POST"
            /\ KindsListening(listeners', pc') = {"audio", "video"}
            /\ Cardinality(ListenersOf(listeners', pc')) = 2
        /\ (binary = "relay" /\ ~running /\ running') =>
            /\ posts' = posts
            /\ \E h \in DOMAIN reqs :
                 /\ reqs[h].at = "await" /\ Responds(h)
                 /\ PostsOf(h) # {}
                 /\ peers[pc].remote = <<>>
                 /\ peers'[pc].remote = reqs'[h].resp.body
                 /\ peers'[pc].remote # <<>>
        /\ running => posts' = posts]_vars

\* the relay is Running after two Starts that each sent one request: the
\* first failed on its answer, the second succeeded
C15_Witness ==
  /\ binary = "relay" /\ running
  /\ Len(posts) = 2 /\ posts[1].from # posts[2].from
  /\ peers[pc].remote # <<>>
  /\ KindsListening(listeners, pc) = {"audio", "video"}

\* the handlers inside the critical section of startHandler or stopHandler:
\* between mu.Lock() and the deferred mu.Unlock()
InHandlerSection ==
  { h \in DOMAIN reqs : /\ h[1] \in Routes(binary) \ {"shutdown"}
                        /\ reqs[h].at \in {"body", "await", "ret"} }

\* the shutdown tasks between mu.Lock() and mu.Unlock()
InTaskSection == { Task(j) : j \in { k \in DOMAIN tasks : tasks[k] = "mark" } }

\* C16: at no instant are two of the critical sections of Start, Stop and
\* the shutdown task executing: at most one goroutine is inside one, it is
\* the holder of mu, and mu is free when none is; a startHandler or
\* stopHandler that has returned, by whatever path, no longer holds mu.
C16_MutualExclusion ==
  /\ Cardinality(InHandlerSection \cup InTaskSection) <= 1
  /\ \A g \in InHandlerSection \cup InTaskSection : mu = g
  /\ (InHandlerSection \cup InTaskSection = {}) => mu = Free
  /\ \A h \in DOMAIN reqs : reqs[h].at = "done" => mu # h

\* the shutdown task holds mu, after a Start has returned and released it,
\* while another Start is blocked in mu.Lock()
C16_Witness ==
  /\ InTaskSection # {}
  /\ \E h \in DOMAIN reqs : h[1] = "start" /\ reqs[h].at = "done"
  /\ waiting["start"] > 0

\* the listeners whose goroutine has ended after a failed read or write
Ended(ls) == { l \in DOMAIN ls : ls[l].at = "done" }

\* C17: a step of a listener changes that listener alone: when a failed
\* read or a failed track write ends a listener, every other listener is
\* left as it was, still reading and forwarding, and no step of a listener
\* changes the running flag, the peer or the lock.
C17_ListenerFailureIsLocal ==
  [][(Len(listeners') = Len(listeners) /\ listeners' # listeners) =>
       /\ Cardinality({ l \in DOMAIN listeners :
                          listeners'[l] # listeners[l] }) = 1
       /\ Ended(listeners') # Ended(listeners) =>
            \A l \in DOMAIN listeners \ Ended(listeners') :
              listeners'[l] = listeners[l]
       /\ UNCHANGED <<running, active, pc, peers, mu, reqs, tasks, exited>>]_vars

\* the session is Running, the audio listener has ended on a failed track
\* write, and the video listener has forwarded a packet and is reading
C17_Witness ==
  /\ running
  /\ \E a, v \in ListenersOf(listeners, pc) :
       /\ listeners[a].track[2] = "audio" /\ listeners[v].track[2] = "video"
       /\ listeners[a].at = "done" /\ listeners[a].handed # <<>>
       /\ listeners[v].at = "read" /\ listeners[v].conn
       /\ listeners[v].handed = <<PaddedPacket>>

\* a shutdown task has marked the state: it is past `running = false`
Marked == \E j \in DOMAIN tasks : tasks[j] \in {"exit", "done"}

\* C18: once a shutdown task has marked the state, no Start is accepted:
\* the state is never Running again.
C18_ShuttingDownIsOneWay == Marked => ~running /\ active = 0

\* the listeners that hold the UDP port of listener l
HoldersOfPort(l) ==
  { k \in DOMAIN listeners :
      listeners[k].conn /\ listeners[k].port = listeners[l].port }

\* C19: whenever the relay is Running on ports no other process holds, each
\* listener of the current session has bound, or is about to bind, its port,
\* and no listener started by an earlier Start holds that port: what arrives
\* on the port is forwarded into a track of the current session.
C19_ListenersOfCurrentSession ==
  (binary = "relay" /\ running) =>
    \A l \in ListenersOf(listeners, pc) :
      listeners[l].port \notin OtherPorts =>
        /\ listeners[l].at # "failed"
        /\ HoldersOfPort(l) \subseteq {l}
====
